---------------------------- MODULE Spec2Model ----------------------------
(***************************************************************************)
(* A model of the ETL pipeline of src/etl.py: combine_data, refine_data    *)
(* and aggregate_data, run in that order by main().                        *)
(*                                                                         *)
(* Representation.                                                         *)
(*   - A cell is a tuple: NaN is <<>>, a number or a name x is <<x>>, and  *)
(*     an ISO date string 'YYYY-MM-DD' is <<YYYY, MM, DD>> (the order of   *)
(*     zero-padded ISO strings is the lexicographic order of the tuples).  *)
(*   - A datetime / Timestamp is its proleptic Gregorian ordinal, as       *)
(*     datetime.toordinal() numbers days; timedelta(days=k) adds k.        *)
(*   - A week label f"{start}/{end}" is the pair <<start, end>> of date    *)
(*     strings; split('/') reads its two components.                       *)
(*   - The pipeline never reads the values of the identifier and           *)
(*     population columns, only whether they are missing: a row carries,   *)
(*     per source table, the set of those columns that are NaN in it.      *)
(***************************************************************************)
EXTENDS Integers, Sequences, FiniteSets, TLC

VARIABLES
    demographics_data,      \* the six tables returned by import_data
    epidemiology_data,
    health_data,
    hospitalizations_data,
    index_data,
    vaccinations_data,
    args,                   \* start, end, countries (set when main() filters)
    kept_columns,           \* the columns left by dropna(thresh=..., axis=1)
    combined,               \* main()'s macrotable as combine_data returned it
    refined,                \* main()'s macrotable as refine_data returned it
    macrotable,             \* main()'s macrotable as aggregate_data returned it
    date_ranges,            \* aggregate_data's date_ranges
    pc,                     \* position in main()
    error                   \* the exception that ended the run and the line that raised it

vars == <<demographics_data, epidemiology_data, health_data, hospitalizations_data,
          index_data, vaccinations_data, args, kept_columns, combined, refined,
          macrotable, date_ranges, pc, error>>

----------------------------------------------------------------------------
(* Cells *)

NaN == <<>>

Num(x) == <<x>>

Val(cell) == cell[1]

----------------------------------------------------------------------------
(* datetime: strptime(s, "%Y-%m-%d"), strftime("%Y-%m-%d"), the ordering of *)
(* ISO date strings                                                         *)

IsLeap(y) == (y % 4 = 0 /\ y % 100 # 0) \/ y % 400 = 0

DaysInMonth(y, m) ==
    IF m = 2 THEN (IF IsLeap(y) THEN 29 ELSE 28)
    ELSE IF m \in {4, 6, 9, 11} THEN 30 ELSE 31

RECURSIVE DaysBeforeMonth(_, _)
DaysBeforeMonth(y, m) ==
    IF m <= 1 THEN 0 ELSE DaysBeforeMonth(y, m - 1) + DaysInMonth(y, m - 1)

DaysBeforeYear(y) ==
    (y - 1) * 365 + ((y - 1) \div 4) - ((y - 1) \div 100) + ((y - 1) \div 400)

\* datetime.strptime(s, "%Y-%m-%d"), as the ordinal of the date
strptime(s) == DaysBeforeYear(s[1]) + DaysBeforeMonth(s[1], s[2]) + s[3]

RECURSIVE MonthAndDay(_, _, _)
MonthAndDay(y, m, n) ==
    IF n > DaysInMonth(y, m) THEN MonthAndDay(y, m + 1, n - DaysInMonth(y, m))
    ELSE <<y, m, n>>

\* d.strftime('%Y-%m-%d'), from the ordinal of d (datetime's _ord2ymd)
strftime(ordinal) ==
    LET n0   == ordinal - 1
        n400 == n0 \div 146097
        r400 == n0 % 146097
        n100 == r400 \div 36524
        r100 == r400 % 36524
        n4   == r100 \div 1461
        r4   == r100 % 1461
        n1   == r4 \div 365
        r1   == r4 % 365
        year == n400 * 400 + 1 + n100 * 100 + n4 * 4 + n1
    IN  IF n1 = 4 \/ n100 = 4 THEN <<year - 1, 12, 31>>
        ELSE MonthAndDay(year, 1, r1 + 1)

\* s < t for two ISO date strings (Python's str comparison)
DateStrLess(s, t) ==
    \/ s[1] < t[1]
    \/ s[1] = t[1] /\ s[2] < t[2]
    \/ s[1] = t[1] /\ s[2] = t[2] /\ s[3] < t[3]

\* the names the model uses, in Python's str order (by code point)
StrOrder == <<"AR", "Argentina", "US", "US_CA", "United States of America">>

StrRank(s) == CHOOSE i \in 1..Len(StrOrder) : StrOrder[i] = s

StrLess(s, t) == StrRank(s) < StrRank(t)

----------------------------------------------------------------------------
(* Sequences *)

Range(s) == {s[i] : i \in 1..Len(s)}

RECURSIVE Concat(_)
Concat(ss) == IF ss = <<>> THEN <<>> ELSE Head(ss) \o Concat(Tail(ss))

\* A stable sort of s (np.lexsort is stable): before holds the pairs <<i, j>>
\* of indices with s[i] less than s[j]
StableSort(s, before) ==
    LET n == Len(s)
        Pos(i) == 1 + Cardinality({j \in 1..n :
                        <<j, i>> \in before \/ (<<i, j>> \notin before /\ j < i)})
    IN  [p \in 1..n |-> s[CHOOSE i \in 1..n : Pos(i) = p]]

\* A set as the sequence in ascending order: before holds the pairs <<x, y>> of
\* its elements with x less than y, a total order
SortSet(S, before) ==
    [p \in 1..Cardinality(S) |->
        CHOOSE x \in S : Cardinality({y \in S : <<y, x>> \in before}) = p - 1]

----------------------------------------------------------------------------
(* The columns the code names. The code does not say which table brings a   *)
(* column; they are laid out as in the data set the program is written for: *)
(* the population columns in demographics, the identifiers and the country  *)
(* in index, life_expectancy in health, the flows in epidemiology.          *)

\* the list `columns` dropped after the pruning
HardCodedColumns ==
    {"datacommons_id", "place_id", "subregion2_code", "subregion2_name",
     "wikidata_id", "subregion1_name", "iso_3166_1_alpha_3", "aggregation_level",
     "subregion1_code", "iso_3166_1_alpha_2", "life_expectancy"}

\* the keys of the dict given to fillna
ImputedColumns ==
    {"population_age_20_29", "population_age_70_79", "population_age_60_69",
     "population_age_50_59", "population_age_40_49", "population_age_30_39",
     "population_age_80_and_older", "population_age_10_19", "population_age_00_09",
     "population_female", "population_male"}

DemographicsValueColumns == ImputedColumns \cup {"population"}

HealthValueColumns == {"life_expectancy"}

IndexValueColumns == HardCodedColumns \ HealthValueColumns

CellColumns ==
    {"date", "new_confirmed", "new_deceased", "country_code", "country_name",
     "cumulative_confirmed", "cumulative_deceased"}

\* the columns of the table after the five merges
JoinedColumns ==
    {"location_key", "date", "new_confirmed", "new_deceased", "country_code",
     "country_name"} \cup DemographicsValueColumns \cup HardCodedColumns

\* what a left row gets from a right table that has no row for its key
EpidemiologyNa == [date |-> NaN, new_confirmed |-> NaN, new_deceased |-> NaN]

HealthNa == [health_nan |-> HealthValueColumns]

IndexNa == [country_code |-> NaN, country_name |-> NaN, index_nan |-> IndexValueColumns]

NoValueColumns == <<>>

----------------------------------------------------------------------------
(* pandas *)

\* pd.merge(left, right, on=on, how='left'): every left row, in order, once
\* per right row whose key is equal (in the right table's order), or once
\* with the right columns missing
merge(left, right, on, na) ==
    LET Matches(l) == SelectSeq(right, LAMBDA r : \A k \in on : r[k] = l[k])
        Joined(l)  == IF Matches(l) = <<>> THEN <<l @@ na>>
                      ELSE [i \in 1..Len(Matches(l)) |-> l @@ Matches(l)[i]]
    IN  Concat([i \in 1..Len(left) |-> Joined(left[i])])

\* whether column c of a row holds a value
notna(row, c) ==
    CASE c = "location_key"              -> TRUE
      [] c \in CellColumns               -> row[c] # NaN
      [] c \in DemographicsValueColumns  -> c \notin row.demographics_nan
      [] c \in IndexValueColumns         -> c \notin row.index_nan
      [] c \in HealthValueColumns        -> c \notin row.health_nan

\* DataFrame.count() of one column
count(table, c) ==
    Cardinality({i \in 1..Len(table.rows) : notna(table.rows[i], c)})

\* len(macrotable) * 0.6. The product is kept as the fraction 6 * len / 10: for
\* a length that is a multiple of 5 the double product is the integer itself, and
\* otherwise it lies strictly between two integers, as the fraction does.
min_data_threshold(table) == [num |-> Len(table.rows) * 6, den |-> 10]

\* (a variant: a column needs more than thresh values)
dropna_columns_above(table, thresh) ==
    [table EXCEPT !.columns =
        {c \in table.columns : count(table, c) * thresh.den > thresh.num}]

\* macrotable.dropna(thresh=thresh, axis=1): keep the columns with at least
\* thresh values
dropna_columns(table, thresh) ==
    [table EXCEPT !.columns =
        {c \in table.columns : count(table, c) * thresh.den >= thresh.num}]

\* macrotable.dropna(subset=[c]): keep the rows with a value in column c
dropna_rows(table, c) ==
    [table EXCEPT !.rows = SelectSeq(table.rows, LAMBDA row : notna(row, c))]

\* macrotable.fillna({c: macrotable.c.mean() for the eleven columns}): a column
\* with a value somewhere has a mean, which fills its missing cells; the mean
\* of a column of NaN alone is NaN
fillna_means(table) ==
    LET has_mean == {c \in ImputedColumns : count(table, c) > 0}
    IN  [table EXCEPT !.rows =
            [i \in 1..Len(table.rows) |->
                [table.rows[i] EXCEPT !.demographics_nan = @ \ has_mean]]]

\* macrotable['population'].fillna(population_male + population_female)
fillna_population(table) ==
    [table EXCEPT !.rows =
        [i \in 1..Len(table.rows) |->
            [table.rows[i] EXCEPT !.demographics_nan =
                IF {"population_male", "population_female"} \cap @ = {}
                THEN @ \ {"population"} ELSE @]]]

\* the order of sort_values(by=['location_key', 'date']), dates still strings,
\* NaN last
LocationDateLess(a, b) ==
    \/ StrLess(a.location_key, b.location_key)
    \/ /\ a.location_key = b.location_key
       /\ a.date # NaN
       /\ (b.date = NaN \/ DateStrLess(a.date, b.date))

\* (a variant: the negative values are left)
clean_fillna_only(cell) == IF cell = NaN THEN Num(0) ELSE cell

\* macrotable.sort_values(by=['location_key', 'date'], inplace=True)
sort_by_location_date(rows) ==
    StableSort(rows, {p \in (1..Len(rows)) \X (1..Len(rows)) :
                         LocationDateLess(rows[p[1]], rows[p[2]])})

\* column.fillna(0), then the negative values set to 0
clean(cell) == IF cell = NaN THEN Num(0) ELSE IF Val(cell) < 0 THEN Num(0) ELSE cell

clean_flows(table) ==
    [table EXCEPT !.rows =
        [i \in 1..Len(table.rows) |->
            [table.rows[i] EXCEPT !.new_confirmed = clean(@),
                                  !.new_deceased = clean(@)]]]

RECURSIVE SumCells(_, _)
SumCells(rows, c) ==
    IF rows = <<>> THEN 0 ELSE Val(Head(rows)[c]) + SumCells(Tail(rows), c)

\* (a variant: the cumulative sum is not grouped)
cumsum_of_all(rows, c, i) == SumCells(SubSeq(rows, 1, i), c)

\* macrotable.groupby('location_key')[c].cumsum(), at row i
group_cumsum(rows, c, i) ==
    SumCells(SelectSeq(SubSeq(rows, 1, i),
                       LAMBDA r : r.location_key = rows[i].location_key), c)

add_cumulative(table) ==
    [columns |-> table.columns \cup {"cumulative_confirmed", "cumulative_deceased"},
     rows |-> [i \in 1..Len(table.rows) |->
                 table.rows[i] @@
                 [cumulative_confirmed |-> Num(group_cumsum(table.rows, "new_confirmed", i)),
                  cumulative_deceased  |-> Num(group_cumsum(table.rows, "new_deceased", i))]]]

\* macrotable['date'] = pd.to_datetime(macrotable['date'])
to_datetime(table) ==
    [table EXCEPT !.rows =
        [i \in 1..Len(table.rows) |-> [table.rows[i] EXCEPT !.date = strptime(@)]]]

----------------------------------------------------------------------------
(* combine_data *)

NoTable == [columns |-> {}, rows |-> <<>>]

NoError == [type |-> "none", line |-> 0]

Raised(type, line) == [type |-> type, line |-> line]

\* the five merges
joined_tables(demographics, epidemiology, health, hospitalizations, index, vaccinations) ==
    LET m1 == merge(demographics, epidemiology, {"location_key"}, EpidemiologyNa)
        m2 == merge(m1, health, {"location_key"}, HealthNa)
        m3 == merge(m2, hospitalizations, {"location_key", "date"}, NoValueColumns)
        m4 == merge(m3, index, {"location_key"}, IndexNa)
        m5 == merge(m4, vaccinations, {"location_key", "date"}, NoValueColumns)
    IN  [columns |-> JoinedColumns, rows |-> m5]

\* the columns combine_data reads after the pruning, in the order it reads them,
\* with the exception it raises when one of them is gone
missing_column_error(columns) ==
    IF ~(HardCodedColumns \subseteq columns) THEN Raised("KeyError", 69)
    ELSE IF ~(ImputedColumns \subseteq columns) THEN Raised("AttributeError", 72)
    ELSE IF "population" \notin columns THEN Raised("KeyError", 87)
    ELSE IF ~({"location_key", "date"} \subseteq columns) THEN Raised("KeyError", 90)
    ELSE IF "new_confirmed" \notin columns THEN Raised("KeyError", 93)
    ELSE IF "new_deceased" \notin columns THEN Raised("KeyError", 97)
    ELSE IF "country_code" \notin columns THEN Raised("KeyError", 105)
    ELSE NoError

\* combine_data: [kept: the columns left by the pruning, error, table]
combine_data(demographics, epidemiology, health, hospitalizations, index, vaccinations) ==
    LET joined   == joined_tables(demographics, epidemiology, health,
                                  hospitalizations, index, vaccinations)
        pruned   == dropna_columns(joined, min_data_threshold(joined))
        dropped  == [pruned EXCEPT !.columns = @ \ HardCodedColumns]
        filled   == fillna_population(fillna_means(dropped))
        sorted   == [filled EXCEPT !.rows = sort_by_location_date(@)]
        summed   == add_cumulative(clean_flows(sorted))
        complete == dropna_rows(dropna_rows(dropna_rows(summed, "country_code"), "date"),
                                "cumulative_confirmed")
        err      == missing_column_error(pruned.columns)
    IN  [kept  |-> pruned.columns,
         error |-> err,
         table |-> IF err = NoError THEN to_datetime(complete) ELSE NoTable]

----------------------------------------------------------------------------
(* refine_data *)

\* `if country_list:` is false for None and for the empty list
given(country_list) == ~country_list.none /\ country_list.names # <<>>

\* macrotable['country_name'].isin(country_list), for one row
isin(cell, names) == cell # NaN /\ Val(cell) \in Range(names)

\* (a variant: the end date is excluded)
refine_data_end_excluded(table, start_period, end_period, country_list) ==
    LET in_range == [table EXCEPT !.rows =
                        SelectSeq(@, LAMBDA row : /\ row.date >= strptime(start_period)
                                                  /\ row.date < strptime(end_period))]
    IN  IF ~given(country_list) THEN [error |-> NoError, table |-> in_range]
        ELSE IF "country_name" \notin table.columns
             THEN [error |-> Raised("KeyError", 124), table |-> NoTable]
        ELSE [error |-> NoError,
              table |-> [in_range EXCEPT !.rows =
                            SelectSeq(@, LAMBDA row : isin(row.country_name,
                                                           country_list.names))]]

\* refine_data: [error, table]
refine_data(table, start_period, end_period, country_list) ==
    LET in_range == [table EXCEPT !.rows =
                        SelectSeq(@, LAMBDA row : /\ row.date >= strptime(start_period)
                                                  /\ row.date <= strptime(end_period))]
    IN  IF ~given(country_list) THEN [error |-> NoError, table |-> in_range]
        ELSE IF "country_name" \notin table.columns
             THEN [error |-> Raised("KeyError", 124), table |-> NoTable]
        ELSE [error |-> NoError,
              table |-> [in_range EXCEPT !.rows =
                            SelectSeq(@, LAMBDA row : isin(row.country_name,
                                                           country_list.names))]]

----------------------------------------------------------------------------
(* aggregate_data *)

interval_days == 7

\* f"{start}/{end}" and its split('/')
Label(start, end) == <<start, end>>

LabelStart(date_range) == date_range[1]

LabelEnd(date_range) == date_range[2]

\* a < b for two week labels (Python's str comparison of 'start/end')
LabelLess(a, b) ==
    \/ DateStrLess(LabelStart(a), LabelStart(b))
    \/ LabelStart(a) = LabelStart(b) /\ DateStrLess(LabelEnd(a), LabelEnd(b))

\* (a variant: the last interval is not cut at the end date)
RECURSIVE interval_loop_unclamped(_, _, _, _)
interval_loop_unclamped(interval_start, interval_end_date, days, date_intervals) ==
    IF interval_start <= interval_end_date
    THEN LET interval_end == interval_start + (days - 1)
         IN  interval_loop_unclamped(interval_end + 1, interval_end_date, days,
                           Append(date_intervals,
                                  <<strftime(interval_start), strftime(interval_end)>>))
    ELSE date_intervals

\* the while loop of create_date_intervals
RECURSIVE interval_loop(_, _, _, _)
interval_loop(interval_start, interval_end_date, days, date_intervals) ==
    IF interval_start <= interval_end_date
    THEN LET next_end     == interval_start + (days - 1)
             interval_end == IF next_end > interval_end_date
                             THEN interval_end_date ELSE next_end
         IN  interval_loop(interval_end + 1, interval_end_date, days,
                           Append(date_intervals,
                                  Label(strftime(interval_start), strftime(interval_end))))
    ELSE date_intervals

create_date_intervals(start_date, end_date, days) ==
    interval_loop(strptime(start_date), strptime(end_date), days, <<>>)

\* epidemiology_data.date.min() and .max(): of the dates that are not NaN, as
\* strings; NaN when there is none
date_min(epidemiology) ==
    LET dates == {epidemiology[i].date : i \in 1..Len(epidemiology)} \ {NaN}
    IN  IF dates = {} THEN NaN
        ELSE CHOOSE d \in dates : \A e \in dates : ~DateStrLess(e, d)

date_max(epidemiology) ==
    LET dates == {epidemiology[i].date : i \in 1..Len(epidemiology)} \ {NaN}
    IN  IF dates = {} THEN NaN
        ELSE CHOOSE d \in dates : \A e \in dates : ~DateStrLess(d, e)

\* (a variant: the end date of a range gets no entry)
RECURSIVE date_ranges_dict_end_excluded(_)
date_ranges_dict_end_excluded(ranges) ==
    IF ranges = <<>> THEN <<>>
    ELSE LET date_range == ranges[Len(ranges)]
             start_date == strptime(LabelStart(date_range))
             end_date   == strptime(LabelEnd(date_range))
         IN  [current_date \in start_date..(end_date - 1) |-> date_range]
             @@ date_ranges_dict_end_excluded(SubSeq(ranges, 1, Len(ranges) - 1))

\* the dictionary from every date of every range to its label; a later range
\* overwrites an earlier one
RECURSIVE date_ranges_dict(_)
date_ranges_dict(ranges) ==
    IF ranges = <<>> THEN <<>>
    ELSE LET date_range == ranges[Len(ranges)]
             start_date == strptime(LabelStart(date_range))
             end_date   == strptime(LabelEnd(date_range))
         IN  [current_date \in start_date..end_date |-> date_range]
             @@ date_ranges_dict(SubSeq(ranges, 1, Len(ranges) - 1))

\* (a variant: agg 'last' instead of 'sum')
groupby_week_country_last(rows) ==
    LET named     == SelectSeq(rows, LAMBDA r : r.country_name # NaN)
        keys      == {<<named[i].week, Val(named[i].country_name)>> : i \in 1..Len(named)}
        KeyLess(a, b) == LabelLess(a[1], b[1]) \/ (a[1] = b[1] /\ StrLess(a[2], b[2]))
        group(k)  == SelectSeq(named, LAMBDA r : r.week = k[1] /\ Val(r.country_name) = k[2])
        last(k)   == group(k)[Len(group(k))]
        ordered   == SortSet(keys, {p \in keys \X keys : KeyLess(p[1], p[2])})
    IN  [i \in 1..Len(ordered) |->
            [week          |-> ordered[i][1],
             country_name  |-> ordered[i][2],
             new_confirmed |-> Val(last(ordered[i]).new_confirmed),
             new_deceased  |-> Val(last(ordered[i]).new_deceased)]]

\* groupby(['week', 'country_name']).agg(sum): one row per key that occurs, rows
\* without a country_name left out, in the order of the keys
groupby_week_country(rows) ==
    LET named     == SelectSeq(rows, LAMBDA r : r.country_name # NaN)
        keys      == {<<named[i].week, Val(named[i].country_name)>> : i \in 1..Len(named)}
        KeyLess(a, b) == LabelLess(a[1], b[1]) \/ (a[1] = b[1] /\ StrLess(a[2], b[2]))
        group(k)  == SelectSeq(named, LAMBDA r : r.week = k[1] /\ Val(r.country_name) = k[2])
        ordered   == SortSet(keys, {p \in keys \X keys : KeyLess(p[1], p[2])})
    IN  [i \in 1..Len(ordered) |->
            [week          |-> ordered[i][1],
             country_name  |-> ordered[i][2],
             new_confirmed |-> SumCells(group(ordered[i]), "new_confirmed"),
             new_deceased  |-> SumCells(group(ordered[i]), "new_deceased")]]

\* the order of sort_values(['country_name', 'week'])
CountryWeekLess(a, b) ==
    \/ StrLess(a.country_name, b.country_name)
    \/ a.country_name = b.country_name /\ LabelLess(a.week, b.week)

\* .sort_values(['country_name', 'week']).reset_index()
sort_by_country_week(rows) ==
    StableSort(rows, {p \in (1..Len(rows)) \X (1..Len(rows)) :
                         CountryWeekLess(rows[p[1]], rows[p[2]])})

\* (a variant: the running total is carried from one country to the next)
RECURSIVE weekly_cumulative_carried(_, _, _)
weekly_cumulative_carried(aggregated_df, c, i) ==
    IF i = 1 THEN aggregated_df[i][c]
    ELSE weekly_cumulative_carried(aggregated_df, c, i - 1) + aggregated_df[i][c]

\* the two loops over range(len(aggregated_df)): the cumulative value of row i
RECURSIVE weekly_cumulative(_, _, _)
weekly_cumulative(aggregated_df, c, i) ==
    IF i = 1 \/ aggregated_df[i].country_name # aggregated_df[i - 1].country_name
    THEN aggregated_df[i][c]
    ELSE weekly_cumulative(aggregated_df, c, i - 1) + aggregated_df[i][c]

add_weekly_cumulative(aggregated_df) ==
    [i \in 1..Len(aggregated_df) |->
        aggregated_df[i] @@
        [cumulative_confirmed |-> weekly_cumulative(aggregated_df, "new_confirmed", i),
         cumulative_deceased  |-> weekly_cumulative(aggregated_df, "new_deceased", i)]]

\* sort_values('week'): the sort of one column is not stable, so rows of one
\* week come in any order. The set of the possible results.
RECURSIVE sort_by_week(_)
sort_by_week(rows) ==
    IF rows = {} THEN {<<>>}
    ELSE UNION {{<<first>> \o rest : rest \in sort_by_week(rows \ {first})} :
                first \in {r \in rows : \A q \in rows : ~LabelLess(q.week, r.week)}}

\* (a variant: the populations are not grouped, one row per location)
population_by_location(demographics, index) ==
    LET demographics_index == merge(demographics, index, {"location_key"}, IndexNa)
        named == SelectSeq(demographics_index, LAMBDA r : r.country_name # NaN)
    IN  [i \in 1..Len(named) |->
            [country_name |-> Val(named[i].country_name), population_nan |-> FALSE]]

\* demographics merged with index, grouped by country_name and summed: one row
\* per country name, in the order of the names
population_by_country(demographics, index) ==
    LET demographics_index == merge(demographics, index, {"location_key"}, IndexNa)
        names == {Val(demographics_index[i].country_name) :
                    i \in {j \in 1..Len(demographics_index) :
                             demographics_index[j].country_name # NaN}}
        ordered == SortSet(names, {p \in names \X names : StrLess(p[1], p[2])})
    IN  [i \in 1..Len(ordered) |-> [country_name |-> ordered[i], population_nan |-> FALSE]]

PopulationNa == [population_nan |-> TRUE]

AggregatedColumns(rows) ==
    {"week", "country_name", "new_confirmed", "new_deceased"}
    \cup (IF rows = <<>> THEN {} ELSE {"cumulative_confirmed", "cumulative_deceased"})
    \cup DemographicsValueColumns

\* aggregate_data: [error, date_ranges, tables: the tables it may return]
aggregate_data(table, epidemiology, demographics, index) ==
    LET min_date == date_min(epidemiology)
        max_date == date_max(epidemiology)
        ranges   == create_date_intervals(min_date, max_date, interval_days)
        dict     == date_ranges_dict(ranges)
        labelled == [i \in 1..Len(table.rows) |->
                        table.rows[i] @@ [week |-> dict[table.rows[i].date]]]
        aggregated_df == add_weekly_cumulative(
                            sort_by_country_week(groupby_week_country(labelled)))
        population == population_by_country(demographics, index)
    IN  IF min_date = NaN
        THEN [error |-> Raised("TypeError", 135), date_ranges |-> <<>>, tables |-> {NoTable}]
        ELSE IF \E i \in 1..Len(table.rows) : table.rows[i].date \notin DOMAIN dict
        THEN [error |-> Raised("KeyError", 168), date_ranges |-> ranges, tables |-> {NoTable}]
        ELSE IF "country_name" \notin table.columns
        THEN [error |-> Raised("KeyError", 171), date_ranges |-> ranges, tables |-> {NoTable}]
        ELSE [error |-> NoError, date_ranges |-> ranges,
              tables |-> {[columns |-> AggregatedColumns(sorted),
                           rows |-> merge(sorted, population, {"country_name"}, PopulationNa)] :
                          sorted \in sort_by_week(Range(aggregated_df))}]

----------------------------------------------------------------------------
(* The input tables import_data may return, and the arguments *)

MaxRows == 3            \* epidemiology rows of an enumerated table

MaxSpan == 16           \* days between the first and the last date of a span

MaxPerLocation == 3     \* epidemiology rows of one location of a sparse table

FirstDate == <<2020, 2, 20>>

\* the date string k days after FirstDate
DateAt(k) == strftime(strptime(FirstDate) + k)

LocationKeys == {"AR", "US", "US_CA"}

demographics_row(key, nan) == [location_key |-> key, demographics_nan |-> nan]

health_row(key, nan) == [location_key |-> key, health_nan |-> nan]

epidemiology_row(key, date, flows) ==
    [location_key |-> key, date |-> date,
     new_confirmed |-> flows[1], new_deceased |-> flows[2]]

CountryCode(key) == IF key = "AR" THEN "AR" ELSE "US"

CountryName(key) == IF key = "AR" THEN "Argentina" ELSE "United States of America"

\* the index row of a location, the columns in nan missing
index_row(key, nan) ==
    [location_key |-> key,
     country_code |-> IF "country_code" \in nan THEN NaN ELSE Num(CountryCode(key)),
     country_name |-> IF "country_name" \in nan THEN NaN ELSE Num(CountryName(key)),
     index_nan    |-> nan \cap IndexValueColumns]

\* the subsets of S of at most n elements
RECURSIVE SubsetsUpTo(_, _)
SubsetsUpTo(S, n) ==
    IF n = 0 THEN {{}}
    ELSE LET smaller == SubsetsUpTo(S, n - 1)
         IN  smaller \cup {s \cup {x} : s \in smaller, x \in S}

\* new_confirmed and new_deceased of a row: values, negative values, NaN
FlowValues == {<<Num(3), Num(1)>>, <<Num(-2), Num(-5)>>, <<NaN, NaN>>}

\* two days of one week and a day of the next
FlowDates == {DateAt(0), DateAt(1), DateAt(8)}

\* 1. Complete demographics, index and health tables of three locations, two of
\* them of one country, and any epidemiology table of at most MaxRows rows with
\* distinct (location_key, date), the rows from the last key to the first.
InitEnumerated ==
    \E keys \in SubsetsUpTo(LocationKeys \X FlowDates, MaxRows) :
    \E flows \in [keys -> FlowValues] :
        /\ demographics_data = <<demographics_row("US_CA", {}), demographics_row("AR", {}),
                                 demographics_row("US", {})>>
        /\ epidemiology_data =
              LET rows == {epidemiology_row(k[1], k[2], flows[k]) : k \in keys}
              IN  SortSet(rows, {p \in rows \X rows : LocationDateLess(p[2], p[1])})
        /\ health_data = <<health_row("AR", {}), health_row("US", {}), health_row("US_CA", {})>>
        /\ hospitalizations_data = <<[location_key |-> "US", date |-> DateAt(0)]>>
        /\ index_data = <<index_row("US", {}), index_row("US_CA", {}), index_row("AR", {})>>
        /\ vaccinations_data = <<>>

\* 2. Two locations with up to MaxPerLocation daily rows each, and at most one
\* column of demographics, index or health missing for some of the locations.
SparseCandidates ==
    DemographicsValueColumns \cup HardCodedColumns \cup {"country_code", "country_name"}

InitSparse ==
    \E n_us \in 0..MaxPerLocation, n_ar \in 0..MaxPerLocation :
    \E sparse \in {{}} \cup {{c} : c \in SparseCandidates} :
    \E where \in SUBSET {"US", "AR"} :
        /\ (sparse = {}) = (where = {})
        /\ LET nan(key) == IF key \in where THEN sparse ELSE {}
           IN  /\ demographics_data =
                     <<demographics_row("US", nan("US") \cap DemographicsValueColumns),
                       demographics_row("AR", nan("AR") \cap DemographicsValueColumns)>>
               /\ health_data =
                     <<health_row("US", nan("US") \cap HealthValueColumns),
                       health_row("AR", nan("AR") \cap HealthValueColumns)>>
               /\ index_data = <<index_row("AR", nan("AR")), index_row("US", nan("US"))>>
        /\ epidemiology_data =
              [i \in 1..n_us |-> epidemiology_row("US", DateAt(i - 1), <<Num(1), Num(0)>>)]
              \o [i \in 1..n_ar |-> epidemiology_row("AR", DateAt(i - 1), <<Num(2), Num(1)>>)]
        /\ hospitalizations_data = <<>>
        /\ vaccinations_data = <<[location_key |-> "AR", date |-> DateAt(0)]>>

\* 3. One location observed on the first and on the last day of any span of at
\* most MaxSpan days after FirstDate.
InitSpan ==
    \E first \in 0..MaxSpan, last \in 0..MaxSpan :
        /\ first <= last
        /\ demographics_data = <<demographics_row("US", {})>>
        /\ epidemiology_data =
              IF first = last THEN <<epidemiology_row("US", DateAt(first), <<Num(1), Num(0)>>)>>
              ELSE <<epidemiology_row("US", DateAt(last), <<Num(2), Num(1)>>),
                     epidemiology_row("US", DateAt(first), <<Num(1), Num(0)>>)>>
        /\ health_data = <<health_row("US", {})>>
        /\ hospitalizations_data = <<>>
        /\ index_data = <<index_row("US", {})>>
        /\ vaccinations_data = <<>>

\* 4. Two locations of one country, a week of daily rows each.
WeekOfUS == <<1, 2, 0, 3, 0, 0, 1>>

WeekOfUSCA == <<0, 0, 2, 0, 1, 0, 0>>

DeceasedOfUS == <<0, 1, -5, 0, 2, 0, 0>>

InitTwoLocations ==
    /\ demographics_data = <<demographics_row("US", {}), demographics_row("US_CA", {})>>
    /\ epidemiology_data =
          [i \in 1..Len(WeekOfUS) |->
              epidemiology_row("US", DateAt(i - 1),
                               <<Num(WeekOfUS[i]), Num(DeceasedOfUS[i])>>)]
          \o [i \in 1..Len(WeekOfUSCA) |->
              epidemiology_row("US_CA", DateAt(i - 1), <<Num(WeekOfUSCA[i]), Num(0)>>)]
    /\ health_data = <<health_row("US", {}), health_row("US_CA", {})>>
    /\ hospitalizations_data = <<>>
    /\ index_data = <<index_row("US", {}), index_row("US_CA", {})>>
    /\ vaccinations_data = <<>>

\* --start, --end and --countries: the defaults, and filters that cut the span
DefaultStart == <<2020, 1, 2>>

DefaultEnd == <<2022, 8, 22>>

NoCountries == [none |-> TRUE, names |-> <<>>]

Countries(names) == [none |-> FALSE, names |-> names]

ArgChoices ==
    {[start |-> DefaultStart, end |-> DefaultEnd, countries |-> NoCountries],
     [start |-> DateAt(1), end |-> DefaultEnd,
      countries |-> Countries(<<"United States of America">>)],
     [start |-> DefaultStart, end |-> DateAt(7), countries |-> Countries(<<>>)],
     [start |-> DateAt(1), end |-> DateAt(8), countries |-> Countries(<<"Argentina", "Chile">>)]}

NoArgs == [start |-> DefaultStart, end |-> DefaultEnd, countries |-> NoCountries]

----------------------------------------------------------------------------
(* main *)

Init ==
    /\ \/ InitEnumerated
       \/ InitSparse
       \/ InitSpan
       \/ InitTwoLocations
    /\ args = NoArgs
    /\ kept_columns = {}
    /\ combined = NoTable
    /\ refined = NoTable
    /\ macrotable = NoTable
    /\ date_ranges = <<>>
    /\ pc = "imported"
    /\ error = NoError

inputs == <<demographics_data, epidemiology_data, health_data, hospitalizations_data,
            index_data, vaccinations_data>>

\* macrotable = combine_data(...)
Combine ==
    /\ pc = "imported"
    /\ \E r \in {combine_data(demographics_data, epidemiology_data, health_data,
                                hospitalizations_data, index_data, vaccinations_data)} :
           /\ kept_columns' = r.kept
           /\ combined' = r.table
           /\ error' = r.error
           /\ pc' = IF r.error = NoError THEN "combined" ELSE "raised"
    /\ UNCHANGED <<inputs, args, refined, macrotable, date_ranges>>

\* macrotable = refine_data(macrotable, args.start, args.end, args.countries)
Refine ==
    /\ pc = "combined"
    /\ \E a \in ArgChoices :
          \E r \in {refine_data(combined, a.start, a.end, a.countries)} :
              /\ args' = a
              /\ refined' = r.table
              /\ error' = r.error
              /\ pc' = IF r.error = NoError THEN "refined" ELSE "raised"
    /\ UNCHANGED <<inputs, kept_columns, combined, macrotable, date_ranges>>

\* macrotable = aggregate_data(macrotable, epidemiology_data, demographics_data, index_data)
Aggregate ==
    /\ pc = "refined"
    /\ \E r \in {aggregate_data(refined, epidemiology_data, demographics_data, index_data)} :
           /\ date_ranges' = r.date_ranges
           /\ error' = r.error
           /\ pc' = IF r.error = NoError THEN "aggregated" ELSE "raised"
           /\ \E table \in r.tables : macrotable' = table
    /\ UNCHANGED <<inputs, args, kept_columns, combined, refined>>

Next == Combine \/ Refine \/ Aggregate

Spec == Init /\ [][Next]_vars

----------------------------------------------------------------------------
(* What the properties below read *)

\* the pruning of combine_data is done
Pruned == pc = "combined" \/ (pc = "raised" /\ error.line < 114)

\* the stage has just returned its table
CombineReturned == pc = "combined"

RefineReturned == pc = "refined"

AggregateReturned == pc = "aggregated"

\* create_date_intervals has returned
IntervalsCreated == pc = "aggregated" \/ (pc = "raised" /\ error.line > 154)

RECURSIVE Total(_)
Total(numbers) == IF numbers = <<>> THEN 0 ELSE Head(numbers) + Total(Tail(numbers))

\* the first and the last day of the epidemiology table, as ordinals
SpanDays == {strptime(epidemiology_data[i].date) : i \in 1..Len(epidemiology_data)}

SpanFirst == LET days == SpanDays IN CHOOSE d \in days : \A e \in days : d <= e

SpanLast == LET days == SpanDays IN CHOOSE d \in days : \A e \in days : d >= e

LabelFirstDay(date_range) == strptime(LabelStart(date_range))

LabelLastDay(date_range) == strptime(LabelEnd(date_range))

\* the label of the week of day d, counting weeks of 7 days from SpanFirst and
\* cutting the last at SpanLast
ExpectedLabel(d) ==
    LET first == SpanFirst + 7 * ((d - SpanFirst) \div 7)
        last  == IF first + 6 > SpanLast THEN SpanLast ELSE first + 6
    IN  Label(strftime(first), strftime(last))

\* the epidemiology row a combined row comes from
RawRow(row) ==
    CHOOSE i \in 1..Len(epidemiology_data) :
        /\ epidemiology_data[i].location_key = row.location_key
        /\ strptime(epidemiology_data[i].date) = row.date

\* what a flow of the epidemiology table counts: 0 when missing or negative
Cleaned(cell) == IF cell = NaN THEN 0 ELSE IF Val(cell) < 0 THEN 0 ELSE Val(cell)

\* the refined rows of a country in a week
RowsOfWeek(week, country) ==
    SelectSeq(refined.rows,
              LAMBDA r : /\ r.country_name = Num(country)
                         /\ r.date >= LabelFirstDay(week) /\ r.date <= LabelLastDay(week))

Column(rows, c) == [i \in 1..Len(rows) |-> rows[i][c]]

CellColumn(rows, c) == [i \in 1..Len(rows) |-> Val(rows[i][c])]

----------------------------------------------------------------------------
(* Properties *)

\* C1: the week labels made from the first and the last date of the
\* epidemiology table partition that span: every day of the span lies in exactly
\* one label, a label starts the day after the one before it ends, a label has at
\* most 7 days, the first starts on the first day and the last ends on the last
\* day of the span.
C1_WeekLabelsPartitionSpan ==
    IntervalsCreated =>
        LET n == Len(date_ranges)
            first(i) == LabelFirstDay(date_ranges[i])
            last(i)  == LabelLastDay(date_ranges[i])
        IN  /\ n >= 1
            /\ first(1) = SpanFirst
            /\ last(n) = SpanLast
            /\ \A i \in 1..n :
                  /\ first(i) <= last(i)
                  /\ last(i) - first(i) + 1 <= 7
                  /\ date_ranges[i] = Label(strftime(first(i)), strftime(last(i)))
            /\ \A i \in 1..(n - 1) : first(i + 1) = last(i) + 1
            /\ \A d \in SpanFirst..SpanLast :
                  Cardinality({i \in 1..n : first(i) <= d /\ d <= last(i)}) = 1

\* a span of three weeks or more that runs into the next month and whose last
\* week is cut short
C1_Witness ==
    /\ pc = "aggregated"
    /\ Len(date_ranges) >= 3
    /\ LabelLastDay(date_ranges[Len(date_ranges)])
         - LabelFirstDay(date_ranges[Len(date_ranges)]) < 6
    /\ LabelStart(date_ranges[1])[2] # LabelEnd(date_ranges[Len(date_ranges)])[2]

\* C2: in the aggregated table the cumulative values of a row are the sums of
\* the weekly values of its country's rows up to its week, so the first week row
\* of a country holds that week's sums.
C2_WeeklyCumulativeIsRunningSum ==
    AggregateReturned =>
        \A i \in 1..Len(macrotable.rows) :
            LET row  == macrotable.rows[i]
                upto == SelectSeq(macrotable.rows,
                           LAMBDA q : /\ q.country_name = row.country_name
                                      /\ LabelFirstDay(q.week) <= LabelFirstDay(row.week))
            IN  /\ row.cumulative_confirmed = Total(Column(upto, "new_confirmed"))
                /\ row.cumulative_deceased = Total(Column(upto, "new_deceased"))
                /\ Len(upto) = 1 =>
                      /\ row.cumulative_confirmed = row.new_confirmed
                      /\ row.cumulative_deceased = row.new_deceased

\* a country with two weeks of cases, after the rows of another country with cases
C2_Witness ==
    /\ pc = "aggregated"
    /\ \E i, j, k \in 1..Len(macrotable.rows) :
          /\ macrotable.rows[i].country_name = macrotable.rows[j].country_name
          /\ LabelFirstDay(macrotable.rows[i].week) < LabelFirstDay(macrotable.rows[j].week)
          /\ macrotable.rows[i].new_confirmed > 0
          /\ macrotable.rows[j].new_confirmed > 0
          /\ StrLess(macrotable.rows[k].country_name, macrotable.rows[i].country_name)
          /\ macrotable.rows[k].new_confirmed > 0
          /\ macrotable.rows[k].new_deceased > 0

KeptByFilter(row) ==
    /\ strptime(args.start) <= row.date
    /\ row.date <= strptime(args.end)
    /\ (~args.countries.none /\ Len(args.countries.names) > 0) =>
          /\ row.country_name # NaN
          /\ \E k \in 1..Len(args.countries.names) :
                args.countries.names[k] = Val(row.country_name)

\* C3: refine_data returns the rows of its input with start <= date <= end and,
\* when a non-empty country list is given, with country_name in the list: those
\* rows and no other, each as often as in the input, in the input's order and
\* with the input's values.
C3_RefineIsExactFilter ==
    RefineReturned =>
        /\ refined.rows = SelectSeq(combined.rows, KeptByFilter)
        /\ refined.columns = combined.columns

\* a filter that keeps a row dated on its end date, drops a row for its date
\* and drops a row in the date range for its country
C3_Witness ==
    /\ pc = "refined"
    /\ \E r \in Range(refined.rows) : r.date = strptime(args.end)
    /\ \E r \in Range(combined.rows) : r.date < strptime(args.start)
    /\ \E r \in Range(combined.rows) :
          /\ strptime(args.start) <= r.date /\ r.date <= strptime(args.end)
          /\ r \notin Range(refined.rows)

\* C4: in the combined table the cumulative values of a row are the sums of the
\* cleaned flows of the rows of its location_key up to its date, and do not
\* decrease along the dates of a location.
C4_DailyCumulativePerLocation ==
    CombineReturned =>
        \A i \in 1..Len(combined.rows) :
            LET row  == combined.rows[i]
                upto == SelectSeq(combined.rows,
                           LAMBDA q : q.location_key = row.location_key /\ q.date <= row.date)
            IN  /\ Val(row.cumulative_confirmed) = Total(CellColumn(upto, "new_confirmed"))
                /\ Val(row.cumulative_deceased) = Total(CellColumn(upto, "new_deceased"))
                /\ \A q \in Range(upto) :
                      /\ Val(q.cumulative_confirmed) <= Val(row.cumulative_confirmed)
                      /\ Val(q.cumulative_deceased) <= Val(row.cumulative_deceased)

\* two locations with cases, one of them on two dates
C4_Witness ==
    /\ pc = "combined"
    /\ \E i, j, k \in 1..Len(combined.rows) :
          /\ combined.rows[i].location_key = combined.rows[j].location_key
          /\ combined.rows[i].date < combined.rows[j].date
          /\ Val(combined.rows[i].new_confirmed) > 0
          /\ Val(combined.rows[j].new_confirmed) > 0
          /\ StrLess(combined.rows[k].location_key, combined.rows[i].location_key)
          /\ Val(combined.rows[k].new_confirmed) > 0

HasCountryCode(key) ==
    /\ \E i \in 1..Len(demographics_data) : demographics_data[i].location_key = key
    /\ \E i \in 1..Len(index_data) :
          index_data[i].location_key = key /\ index_data[i].country_code # NaN

\* C5: after the cleaning every flow is a number >= 0: a missing or negative
\* value of the epidemiology table has become 0 and any other is unchanged, the
\* row is kept, a row whose value was missing or negative leaves its location's
\* cumulative value where it was, and the weekly sums add the cleaned values.
C5_FlowsCleanedToNonNegative ==
    /\ CombineReturned =>
          /\ \A i \in 1..Len(combined.rows) :
                LET row  == combined.rows[i]
                    raw  == epidemiology_data[RawRow(row)]
                    same == {j \in 1..(i - 1) :
                               combined.rows[j].location_key = row.location_key}
                    Before(c) == IF same = {} THEN 0
                                 ELSE Val(combined.rows[CHOOSE j \in same :
                                                           \A k \in same : k <= j][c])
                IN  /\ row.new_confirmed # NaN /\ Val(row.new_confirmed) >= 0
                    /\ row.new_deceased # NaN /\ Val(row.new_deceased) >= 0
                    /\ Val(row.new_confirmed) = Cleaned(raw.new_confirmed)
                    /\ Val(row.new_deceased) = Cleaned(raw.new_deceased)
                    /\ (raw.new_confirmed = NaN \/ Val(raw.new_confirmed) < 0) =>
                          Val(row.cumulative_confirmed) = Before("cumulative_confirmed")
                    /\ (raw.new_deceased = NaN \/ Val(raw.new_deceased) < 0) =>
                          Val(row.cumulative_deceased) = Before("cumulative_deceased")
          /\ \A i \in 1..Len(epidemiology_data) :
                HasCountryCode(epidemiology_data[i].location_key) =>
                    \E row \in Range(combined.rows) :
                        /\ row.location_key = epidemiology_data[i].location_key
                        /\ row.date = strptime(epidemiology_data[i].date)
    /\ AggregateReturned =>
          \A row \in Range(macrotable.rows) :
              LET days == RowsOfWeek(row.week, row.country_name)
                  raw(c) == [i \in 1..Len(days) |->
                                Cleaned(epidemiology_data[RawRow(days[i])][c])]
              IN  /\ row.new_confirmed = Total(raw("new_confirmed"))
                  /\ row.new_deceased = Total(raw("new_deceased"))

\* a week that adds a day with deaths and a day with new_deceased = -5, and a
\* day with negative new_confirmed after a day with cases
C5_Witness ==
    /\ pc = "aggregated"
    /\ \E row \in Range(macrotable.rows) :
          LET days == RowsOfWeek(row.week, row.country_name)
          IN  /\ \E r \in Range(days) : epidemiology_data[RawRow(r)].new_deceased = Num(-5)
              /\ row.new_deceased > 0
    /\ \E i, j \in 1..Len(combined.rows) :
          /\ i < j
          /\ combined.rows[i].location_key = combined.rows[j].location_key
          /\ Val(combined.rows[i].cumulative_confirmed) > 0
          /\ epidemiology_data[RawRow(combined.rows[j])].new_confirmed = Num(-2)

JoinedRowCount ==
    Total([i \in 1..Len(demographics_data) |->
              LET n == Len(SelectSeq(epidemiology_data,
                           LAMBDA e : e.location_key = demographics_data[i].location_key))
              IN  IF n = 0 THEN 1 ELSE n])

Joined ==
    joined_tables(demographics_data, epidemiology_data, health_data,
                  hospitalizations_data, index_data, vaccinations_data)

C7_HardCodedDropNeverRaises ==
    (Pruned /\ (JoinedColumns \ kept_columns) \subseteq (HardCodedColumns \cup ImputedColumns)) =>
        /\ CombineReturned
        /\ combined.columns \cap HardCodedColumns = {}

\* C8: every row that combine_data and refine_data return has its date in the
\* span of the epidemiology table, the lookup of its week never raises, and
\* the row is counted under the label of the week of 7 days from the first day
\* of that span that holds its date.
C8_WeekLookupNeverFails ==
    /\ RefineReturned =>
          \A row \in Range(refined.rows) : SpanFirst <= row.date /\ row.date <= SpanLast
    /\ ~(pc = "raised" /\ error.line = 168)
    /\ AggregateReturned =>
          \A row \in Range(refined.rows) :
              row.country_name # NaN =>
                  \E out \in Range(macrotable.rows) :
                      /\ out.country_name = Val(row.country_name)
                      /\ out.week = ExpectedLabel(row.date)
                      /\ LabelFirstDay(out.week) <= row.date
                      /\ row.date <= LabelLastDay(out.week)

\* a row kept by a filter that starts inside the row's week: its label starts
\* before the filter does
C8_Witness ==
    /\ pc = "aggregated"
    /\ \E row \in Range(refined.rows) :
          /\ row.country_name # NaN
          /\ LabelFirstDay(ExpectedLabel(row.date)) < strptime(args.start)
    /\ \E row \in Range(refined.rows) : row.date = SpanLast /\ row.date > SpanFirst + 7

TwoLocationsImported ==
    /\ Len(epidemiology_data) = Len(WeekOfUS) + Len(WeekOfUSCA)
    /\ \A i \in 1..Len(WeekOfUS) : epidemiology_data[i].new_confirmed = Num(WeekOfUS[i])
    /\ \A i \in 1..Len(WeekOfUSCA) :
          epidemiology_data[Len(WeekOfUS) + i].new_confirmed = Num(WeekOfUSCA[i])

\* C9: a row of the aggregated table holds the sums of the cleaned flows of all
\* the filtered rows of its country, of any location, dated in its week; the two
\* locations with [1,2,0,3,0,0,1] and [0,0,2,0,1,0,0] confirmed in one week give
\* 10 confirmed and a cumulative 10.
C9_WeeklySumsOverLocations ==
    AggregateReturned =>
        /\ \A row \in Range(macrotable.rows) :
              LET days == RowsOfWeek(row.week, row.country_name)
              IN  /\ row.new_confirmed = Total(CellColumn(days, "new_confirmed"))
                  /\ row.new_deceased = Total(CellColumn(days, "new_deceased"))
        /\ (TwoLocationsImported /\ args = NoArgs) =>
              /\ Len(macrotable.rows) = 1
              /\ macrotable.rows[1].new_confirmed = 10
              /\ macrotable.rows[1].cumulative_confirmed = 10

\* the week of the two locations, aggregated with the default arguments
C9_Witness ==
    /\ pc = "aggregated"
    /\ TwoLocationsImported
    /\ args = NoArgs
    /\ \E r, q \in Range(RowsOfWeek(macrotable.rows[1].week, macrotable.rows[1].country_name)) :
          r.location_key # q.location_key

\* C10: the aggregated table has one row for each (week, country_name) of the
\* filtered rows and no other row, also after the merge with the population
\* totals, and its weeks ascend.
C10_OneRowPerWeekAndCountry ==
    AggregateReturned =>
        LET out   == macrotable.rows
            pairs == {<<ExpectedLabel(r.date), Val(r.country_name)>> :
                         r \in {q \in Range(refined.rows) : q.country_name # NaN}}
        IN  /\ {<<out[i].week, out[i].country_name>> : i \in 1..Len(out)} = pairs
            /\ Len(out) = Cardinality(pairs)
            /\ \A i, j \in 1..Len(out) :
                  i < j => /\ ~LabelLess(out[j].week, out[i].week)
                           /\ LabelFirstDay(out[i].week) <= LabelFirstDay(out[j].week)
            /\ \A i \in 1..Len(out) : ~out[i].population_nan

\* two countries in one week, one of them of two locations, and a later week
C10_Witness ==
    /\ pc = "aggregated"
    /\ \E i, j, k \in 1..Len(macrotable.rows) :
          /\ macrotable.rows[i].week = macrotable.rows[j].week
          /\ macrotable.rows[i].country_name # macrotable.rows[j].country_name
          /\ LabelLess(macrotable.rows[i].week, macrotable.rows[k].week)
    /\ \E r, q \in Range(refined.rows) :
          r.country_name = q.country_name /\ r.location_key # q.location_key

=============================================================================
